---- MODULE Spec2Model ----
(***************************************************************************)
(* Transaction risk scoring engine of fraud-detection/app/ml/predict.py.   *)
(*                                                                         *)
(* Number scales.  Python floats are modelled by exact integers:           *)
(*   amounts            whole currency units                               *)
(*   scores             thousandths of a point  (25000 = 25.0)             *)
(*   decision values    units of 1/50000        (25000 = 0.5), so that     *)
(*                      (0.5 - raw) * 50 is a whole number of thousandths  *)
(*   confidence         units of 1/100000       (30000 = 0.3)              *)
(*   returned risk_score and confidence: hundredths (round(x, 2))          *)
(*   feature 6 and feature 9: hundredths                                   *)
(***************************************************************************)
EXTENDS Integers, Sequences, FiniteSets, TLC

VARIABLES
    user_profiles,    \* db.models.user_profiles: user_id -> profile or NoProfile
    blacklisted_ips,  \* db.models.blacklisted_ips: set of ip strings
    store,            \* counter store content today: user_id -> value of the key
    last,             \* the evaluation that completed last (inputs, locals, result)
    prev,             \* the evaluation that completed before it
    inflight          \* concurrent evaluations: worker -> position and locals

vars == <<user_profiles, blacklisted_ips, store, last, prev, inflight>>

----------------------------------------------------------------------------
(* Values *)

None == "None"

NoCall == [kind |-> "none"]

NoProfile == [present |-> FALSE]

Profile(avg, locs, merchants, age) ==
    [present |-> TRUE, avg_transaction_amount |-> avg, preferred_locations |-> locs,
     preferred_merchants |-> merchants, account_age_days |-> age]

\* What redis GET returns for a key: None, or the stored string.  A stored
\* string is either the decimal text of an integer n or some other text.
NoKey == [kind |-> "none", n |-> 0]
Digits(n) == [kind |-> "digits", n |-> n]
EmptyText == [kind |-> "empty", n |-> 0]
OtherText == [kind |-> "text", n |-> 0]

Min(a, b) == IF a <= b THEN a ELSE b
Max(a, b) == IF a >= b THEN a ELSE b
Abs(a) == IF a < 0 THEN -a ELSE a

\* Python truthiness of an Optional[str]
Truthy(s) == s # None /\ s # ""

\* round(x, 2) of a value x given in units of 1/(100*unit): the nearest
\* hundredth, an exact tie going to the even one.
Round2(x, unit) ==
    LET q == x \div unit
        r == x % unit
    IN  IF 2 * r < unit THEN q
        ELSE IF 2 * r > unit THEN q + 1
        ELSE IF q % 2 = 0 THEN q ELSE q + 1

----------------------------------------------------------------------------
(* extract_features *)

IsLateNight(hour) == hour < 6 \/ hour > 22

ExtractFeatures(transaction, now, profiles) ==
    LET hour == now.hour
        is_weekend == now.weekday >= 5
        is_late_night == IsLateNight(hour)
        user_profile == profiles[transaction.user_id]
        base == << transaction.amount,
                   hour,
                   IF is_weekend THEN 1 ELSE 0,
                   IF is_late_night THEN 1 ELSE 0,
                   Len(transaction.merchant_category),
                   Len(transaction.location),
                   0, 0, 0, 0 >>
    IN  IF user_profile.present
        THEN LET avg == user_profile.avg_transaction_amount
                 f6 == IF avg > 0
                       THEN Min((Abs(transaction.amount - avg) * 100) \div avg, 500)
                       ELSE 0
                 f7 == IF transaction.location \in user_profile.preferred_locations
                       THEN 0 ELSE 1
                 f8 == IF transaction.merchant_category \in user_profile.preferred_merchants
                       THEN 0 ELSE 1
                 f9 == Min((user_profile.account_age_days * 100) \div 365, 200)
             IN  [base EXCEPT ![7] = f6, ![8] = f7, ![9] = f8, ![10] = f9]
        ELSE base

----------------------------------------------------------------------------
(* The anomaly model and the scaler (external collaborators) *)

NoModel == [kind |-> "absent"]
BrokenModel == [kind |-> "raises"]
ConstModel(d) == [kind |-> "const", d |-> d]
\* a model that finds an amount far from the user's average anomalous
DeviationModel(cut, near, far) == [kind |-> "deviation", cut |-> cut, near |-> near, far |-> far]
\* a model that finds night-time activity anomalous
HourModel(day, night) == [kind |-> "hour", day |-> day, night |-> night]

ModelPresent(model) == model.kind # "absent"
ScalerPresent(scaler) == scaler # "absent"

\* model.decision_function(scaler.transform(features))[0]
DecisionFunction(model, features) ==
    CASE model.kind = "const" -> model.d
      [] model.kind = "deviation" -> IF features[7] <= model.cut THEN model.near ELSE model.far
      [] model.kind = "hour" -> IF features[4] = 1 THEN model.night ELSE model.day

\* the except branch leaving the score at its initial 0.0
MlRiskScoreZeroFallback(features, model, scaler) ==
    IF ModelPresent(model) /\ ScalerPresent(scaler)
    THEN IF scaler = "raises" \/ model.kind = "raises"
         THEN 0
         ELSE Max(0, Min(100000, 25000 - DecisionFunction(model, features)))
    ELSE 0

\* lines 165-180: the ML-based anomaly score
MlRiskScore(features, model, scaler) ==
    IF ModelPresent(model) /\ ScalerPresent(scaler)
    THEN IF scaler = "raises" \/ model.kind = "raises"
         THEN 20000
         ELSE Max(0, Min(100000, 25000 - DecisionFunction(model, features)))
    ELSE 0

----------------------------------------------------------------------------
(* apply_business_rules *)

Acc(score, reasons) == [rule_score |-> score, reasons |-> reasons, raised |-> FALSE,
                        observed |-> NoKey]

Add(acc, delta, reason) ==
    [acc EXCEPT !.rule_score = @ + delta, !.reasons = Append(@, reason)]

\* the two amount tiers with their deltas exchanged
AmountRuleSwapped(acc, transaction) ==
    IF transaction.amount > 5000
    THEN Add(acc, 15000, "Very high transaction amount")
    ELSE IF transaction.amount > 1000
         THEN Add(acc, 25000, "High transaction amount")
         ELSE acc

\* lines 57-63
AmountRule(acc, transaction) ==
    IF transaction.amount > 5000
    THEN Add(acc, 25000, "Very high transaction amount")
    ELSE IF transaction.amount > 1000
         THEN Add(acc, 15000, "High transaction amount")
         ELSE acc

\* lines 65-68
BlacklistRule(acc, transaction, blacklist) ==
    IF Truthy(transaction.ip_address) /\ transaction.ip_address \in blacklist
    THEN Add(acc, 30000, "Blacklisted IP address")
    ELSE acc

\* the amount-vs-average tiers as two independent checks
ProfileRulesBothTiers(acc, transaction, profiles) ==
    LET user_profile == profiles[transaction.user_id]
    IN  IF user_profile.present
        THEN LET a0 == IF transaction.amount > user_profile.avg_transaction_amount * 5
                       THEN Add(acc, 20000, "Amount 5x higher than user average")
                       ELSE acc
                 a1 == IF transaction.amount > user_profile.avg_transaction_amount * 3
                       THEN Add(a0, 10000, "Amount 3x higher than user average")
                       ELSE a0
                 a2 == IF transaction.location \notin user_profile.preferred_locations
                       THEN Add(a1, 12000, "Transaction from unusual location")
                       ELSE a1
                 a3 == IF transaction.merchant_category \notin user_profile.preferred_merchants
                       THEN Add(a2, 8000, "Unusual merchant category for user")
                       ELSE a2
             IN  a3
        ELSE acc

\* lines 70-89
ProfileRules(acc, transaction, profiles) ==
    LET user_profile == profiles[transaction.user_id]
    IN  IF user_profile.present
        THEN LET a1 == IF transaction.amount > user_profile.avg_transaction_amount * 5
                       THEN Add(acc, 20000, "Amount 5x higher than user average")
                       ELSE IF transaction.amount > user_profile.avg_transaction_amount * 3
                            THEN Add(acc, 10000, "Amount 3x higher than user average")
                            ELSE acc
                 a2 == IF transaction.location \notin user_profile.preferred_locations
                       THEN Add(a1, 12000, "Transaction from unusual location")
                       ELSE a1
                 a3 == IF transaction.merchant_category \notin user_profile.preferred_merchants
                       THEN Add(a2, 8000, "Unusual merchant category for user")
                       ELSE a2
             IN  a3
        ELSE acc

\* redis_client.get(user_tx_key): the value, or an exception
RedisGet(redis_client, kv, user_id) ==
    IF redis_client = "raises"
    THEN [raised |-> TRUE, value |-> NoKey]
    ELSE [raised |-> FALSE, value |-> kv[user_id]]

\* lines 91-111; `caught` is the try/except around the store call
VelocityCheck(acc, transaction, redis_client, kv, caught) ==
    IF redis_client # "absent"
    THEN LET got == RedisGet(redis_client, kv, transaction.user_id)
             transaction_count == got.value
             seen == [acc EXCEPT !.observed = transaction_count]
             failed(a) == IF caught THEN a ELSE [a EXCEPT !.raised = TRUE]
         IN  IF got.raised
             THEN failed(acc)
             ELSE IF transaction_count.kind \in {"none", "empty"}
                  THEN seen          \* falsy: the tiers are skipped
                  ELSE IF transaction_count.kind = "text"
                       THEN failed(seen)   \* int() raises ValueError
                       ELSE LET count == transaction_count.n
                            IN  IF count > 20
                                THEN Add(seen, 25000, "Extremely high transaction velocity (20+ today)")
                                ELSE IF count > 10
                                     THEN Add(seen, 15000, "High transaction velocity (10+ today)")
                                     ELSE IF count > 5
                                          THEN Add(seen, 8000, "Elevated transaction velocity")
                                          ELSE seen
    ELSE acc

VelocityRuleUncaught(acc, transaction, redis_client, kv) ==
    VelocityCheck(acc, transaction, redis_client, kv, FALSE)

VelocityRule(acc, transaction, redis_client, kv) ==
    VelocityCheck(acc, transaction, redis_client, kv, TRUE)

\* lines 113-117
LateNightRule(acc, now) ==
    IF now.hour < 6 \/ now.hour > 22
    THEN Add(acc, 10000, "Late night transaction")
    ELSE acc

\* lines 119-122
PaymentMethodRule(acc, transaction) ==
    IF transaction.payment_method = "digital_wallet"
    THEN Add(acc, 5000, "Digital wallet payment (slightly higher risk)")
    ELSE acc

\* lines 124-127
DeviceFingerprintRule(acc, transaction) ==
    IF ~Truthy(transaction.device_fingerprint)
    THEN Add(acc, 8000, "No device fingerprint provided")
    ELSE acc

\* redis INCR of a key: a missing key counts from 0, a non-numeric value is
\* left alone (the command fails)
Incremented(value) ==
    IF value.kind = "none" THEN Digits(1)
    ELSE IF value.kind = "digits" THEN Digits(value.n + 1)
    ELSE value

\* the velocity step counting the transaction itself (INCR instead of GET)
StoreAfterRulesIncr(kv, transaction, redis_client) ==
    IF redis_client = "ok"
    THEN [kv EXCEPT ![transaction.user_id] = Incremented(@)]
    ELSE kv

\* The counter store after apply_business_rules: the function issues a GET
\* and no write.
StoreAfterRules(kv, transaction, redis_client) == kv

ApplyBusinessRules(transaction, redis_client, kv, now, profiles, blacklist) ==
    LET a0 == Acc(0, << >>)
        a1 == AmountRule(a0, transaction)
        a2 == BlacklistRule(a1, transaction, blacklist)
        a3 == ProfileRules(a2, transaction, profiles)
        a4 == VelocityRule(a3, transaction, redis_client, kv)
    IN  IF a4.raised
        THEN a4
        ELSE DeviceFingerprintRule(PaymentMethodRule(LateNightRule(a4, now), transaction),
                                   transaction)

----------------------------------------------------------------------------
(* get_risk_level, get_recommended_action, analyze_transaction_risk *)

GetRiskLevel(risk_score) ==
    IF risk_score < 25000 THEN "LOW"
    ELSE IF risk_score < 50000 THEN "MEDIUM"
    ELSE IF risk_score < 75000 THEN "HIGH"
    ELSE "CRITICAL"

GetRecommendedAction(risk_score) ==
    IF risk_score < 30000 THEN "APPROVE"
    ELSE IF risk_score < 55000 THEN "REVIEW"
    ELSE IF risk_score < 80000 THEN "REQUEST_VERIFICATION"
    ELSE "DECLINE"

MlReason == "ML model detected anomalous transaction pattern"

\* the sum without its cap
FinalRiskScoreUncapped(ml_risk_score, rule_score) == ml_risk_score + rule_score

\* line 186
FinalRiskScore(ml_risk_score, rule_score) == Min(100000, ml_risk_score + rule_score)

\* the ML reason given only from the MEDIUM/HIGH boundary up
AllReasonsFrom50(ml_risk_score, rule_reasons) ==
    IF ml_risk_score > 50000 /\ rule_reasons = << >>
    THEN Append(rule_reasons, MlReason)
    ELSE rule_reasons

\* lines 189-191
AllReasons(ml_risk_score, rule_reasons) ==
    IF ml_risk_score > 40000 /\ rule_reasons = << >>
    THEN Append(rule_reasons, MlReason)
    ELSE rule_reasons

\* the corroboration bonus given for any reason, the ML one included
ConfidenceAnyReason(final_risk_score, rule_reasons) ==
    LET confidence == Min(100000, final_risk_score + 30000)
    IN  IF rule_reasons # << >> \/ final_risk_score > 40000
        THEN Min(100000, confidence + 20000)
        ELSE confidence

\* lines 194-196
Confidence(final_risk_score, rule_reasons) ==
    LET confidence == Min(100000, final_risk_score + 30000)
    IN  IF rule_reasons # << >>
        THEN Min(100000, confidence + 20000)
        ELSE confidence

\* lines 198-205
RiskAssessment(final_risk_score, confidence, all_reasons) ==
    [transaction_id |-> "",
     risk_score |-> Round2(final_risk_score, 10),
     risk_level |-> GetRiskLevel(final_risk_score),
     confidence |-> Round2(confidence, 1000),
     reasons |-> all_reasons,
     recommended_action |-> GetRecommendedAction(final_risk_score)]

\* The whole call, with its locals kept beside the value it returns.
AnalyzeTransactionRisk(transaction, model, scaler, redis_client, t_feat, t_rule, kv, profiles, blacklist) ==
    LET features == ExtractFeatures(transaction, t_feat, profiles)
        ml_risk_score == MlRiskScore(features, model, scaler)
        rules == ApplyBusinessRules(transaction, redis_client, kv, t_rule,
                                    profiles, blacklist)
        final_risk_score == FinalRiskScore(ml_risk_score, rules.rule_score)
        all_reasons == AllReasons(ml_risk_score, rules.reasons)
        confidence == Confidence(final_risk_score, rules.reasons)
    IN  [kind |-> "call",
         transaction |-> transaction, model |-> model, scaler |-> scaler,
         redis_client |-> redis_client, t_feat |-> t_feat, t_rule |-> t_rule,
         features |-> features,
         ml_risk_score |-> ml_risk_score,
         rule_score |-> rules.rule_score,
         rule_reasons |-> rules.reasons,
         observed |-> rules.observed,
         final_risk_score |-> final_risk_score,
         returned |-> ~rules.raised,
         result |-> RiskAssessment(final_risk_score, confidence, all_reasons)]

----------------------------------------------------------------------------
(* Inputs *)

Users == {"u1", "u2", "u3"}

Transaction(u, a, m, l, p, d, ip) ==
    [user_id |-> u, amount |-> a, merchant_category |-> m, location |-> l,
     payment_method |-> p, device_fingerprint |-> d, ip_address |-> ip]

\* u1 has a profile (average 100, so 3x = 300 and 5x = 500), u2 has none,
\* u3 is a new account with no history (average 0)
ProfileTable ==
    [u \in Users |->
        IF u = "u1" THEN Profile(100, {"NYC"}, {"grocery"}, 400)
        ELSE IF u = "u3" THEN Profile(0, {"Lagos"}, {"jewelry"}, 30)
        ELSE NoProfile]

Blacklist == {"10.0.0.66"}

CountSeq ==
    << NoKey, Digits(0), Digits(5), Digits(6), Digits(10), Digits(11), Digits(12),
       Digits(20), Digits(21), EmptyText, OtherText >>

\* the stores the evaluations start from: every value for each user
StoreStates ==
    { [u \in Users |->
          IF u = "u1" THEN CountSeq[i]
          ELSE IF u = "u2" THEN CountSeq[((i + 3) % Len(CountSeq)) + 1]
          ELSE CountSeq[((i + 6) % Len(CountSeq)) + 1]]
      : i \in 1..Len(CountSeq) }

At(h, wd) == [hour |-> h, weekday |-> wd]

Clients == {"absent", "ok", "raises"}

\* rule-engine inputs: every boundary of every rule
RuleAmounts == {0, 200, 300, 301, 500, 501, 1000, 1001, 5000, 6000}
RuleTransactions ==
    { Transaction(u, a, m, l, p, d, ip) :
        u \in Users, a \in RuleAmounts, m \in {"grocery", "jewelry"},
        l \in {"NYC", "Lagos"}, p \in {"card", "digital_wallet"},
        d \in {None, "", "fp-1"}, ip \in {None, "10.0.0.66", "192.168.1.5"} }
RuleTimes == { At(5, 2), At(6, 2), At(14, 2), At(22, 2), At(23, 2) }

\* fusion inputs: decision values on and around every clamp and threshold
\* (ML scores 0 clamped, 0, 4.992, 4.996, 20, 25, 40, 40.004, 99.996, 100, 100 clamped);
\* none of them puts a score or a confidence exactly halfway between two hundredths
DecisionValues ==
    { 40000, 25000, 20008, 20004, 5000, 0, -15000, -15004, -74996, -75000, -80000 }
Models == {NoModel, BrokenModel} \cup { ConstModel(d) : d \in DecisionValues }
Scalers == {"absent", "ok", "raises"}
FusionTransactions ==
    { Transaction(u, a, "grocery", l, p, d, ip) :
        u \in Users, a \in {0, 200, 1001, 6000}, l \in {"NYC", "Lagos"},
        p \in {"card", "digital_wallet"}, d \in {None, "fp-1"},
        ip \in {None, "10.0.0.66"} }
FusionTimes == { At(14, 2), At(23, 6) }

\* inputs of repeated evaluations: amounts below, at and above the user's
\* average and above every amount tier; a call may straddle the hour
PairTransactions ==
    { Transaction(u, a, "grocery", "NYC", "card", "fp-1", None) :
        u \in Users, a \in {10, 100, 301, 1001, 6000} }
PairTimes == { <<At(14, 2), At(14, 2)>>, <<At(22, 2), At(22, 2)>>,
               <<At(22, 2), At(23, 2)>>, <<At(23, 2), At(23, 2)>> }
PairModels ==
    { NoModel, BrokenModel, ConstModel(-15004), DeviationModel(50, 25000, -5000),
      HourModel(25000, 0) }
PairStores == { s \in StoreStates : s["u1"] \in {Digits(5), Digits(12)} }

\* inputs of concurrent evaluations
NumWorkers == 2
Workers == 1..NumWorkers
ConcTransactions ==
    { Transaction(u, a, "grocery", "NYC", "card", "fp-1", None) :
        u \in {"u1", "u2"}, a \in {200, 6000} }
Idle == [pc |-> "idle"]

----------------------------------------------------------------------------
(* Actions *)

Init ==
    /\ user_profiles = ProfileTable
    /\ blacklisted_ips = Blacklist
    /\ store \in StoreStates
    /\ last = NoCall
    /\ prev = NoCall
    /\ inflight = [w \in Workers |-> Idle]

\* One call of analyze_transaction_risk, from entry to return.
Evaluate(transaction, model, scaler, redis_client, t_feat, t_rule) ==
    /\ last' = AnalyzeTransactionRisk(transaction, model, scaler, redis_client,
                                      t_feat, t_rule, store, user_profiles,
                                      blacklisted_ips)
    /\ prev' = last
    /\ store' = StoreAfterRules(store, transaction, redis_client)
    /\ UNCHANGED <<user_profiles, blacklisted_ips, inflight>>

\* The caller takes the assessments it was waiting for.
Collect ==
    /\ last # NoCall
    /\ last' = NoCall
    /\ prev' = NoCall
    /\ UNCHANGED <<user_profiles, blacklisted_ips, store, inflight>>

\* Rule engine: one evaluation at a time, no model loaded.
EvaluateRules ==
    /\ last = NoCall
    /\ \E transaction \in RuleTransactions, redis_client \in Clients, now \in RuleTimes :
          Evaluate(transaction, NoModel, "absent", redis_client, now, now)

NextRules == EvaluateRules \/ Collect

SpecRules == Init /\ [][NextRules]_vars

\* Score fusion: one evaluation at a time, every state of model and scaler.
EvaluateFusion ==
    /\ last = NoCall
    /\ \E transaction \in FusionTransactions, model \in Models, scaler \in Scalers,
          redis_client \in Clients, now \in FusionTimes :
          Evaluate(transaction, model, scaler, redis_client, now, now)

NextFusion == EvaluateFusion \/ Collect

SpecFusion == Init /\ [][NextFusion]_vars

\* Repeated evaluation: up to two evaluations before the caller collects.
InitPair ==
    /\ Init
    /\ store \in PairStores

EvaluatePair ==
    /\ prev = NoCall
    /\ \E transaction \in PairTransactions, model \in PairModels,
          redis_client \in {"ok", "raises"}, t \in PairTimes :
          Evaluate(transaction, model, "ok", redis_client, t[1], t[2])

NextPair == EvaluatePair \/ Collect

SpecPair == InitPair /\ [][NextPair]_vars

\* Concurrent evaluation.  A call touches shared state in apply_business_rules
\* only, so each worker takes three steps: lines 161-180, line 183, lines 185-205.
Enter(w) ==
    /\ inflight[w].pc = "idle"
    /\ \E transaction \in ConcTransactions, redis_client \in {"ok", "raises"} :
          LET now == At(14, 2)
              features == ExtractFeatures(transaction, now, user_profiles)
          IN  inflight' = [inflight EXCEPT ![w] =
                  [pc |-> "entered", transaction |-> transaction,
                   redis_client |-> redis_client, now |-> now,
                   ml_risk_score |-> MlRiskScore(features, NoModel, "absent")]]
    /\ UNCHANGED <<user_profiles, blacklisted_ips, store, last, prev>>

Rules(w) ==
    /\ inflight[w].pc = "entered"
    /\ LET me == inflight[w]
           rules == ApplyBusinessRules(me.transaction, me.redis_client, store, me.now,
                                       user_profiles, blacklisted_ips)
       IN  /\ inflight' = [inflight EXCEPT ![w] =
                  [pc |-> "ruled", transaction |-> me.transaction,
                   redis_client |-> me.redis_client, now |-> me.now,
                   ml_risk_score |-> me.ml_risk_score, rules |-> rules]]
           /\ store' = StoreAfterRules(store, me.transaction, me.redis_client)
    /\ UNCHANGED <<user_profiles, blacklisted_ips, last, prev>>

Return(w) ==
    /\ inflight[w].pc = "ruled"
    /\ LET me == inflight[w]
           final_risk_score == FinalRiskScore(me.ml_risk_score, me.rules.rule_score)
           all_reasons == AllReasons(me.ml_risk_score, me.rules.reasons)
           confidence == Confidence(final_risk_score, me.rules.reasons)
       IN  inflight' = [inflight EXCEPT ![w] =
               [pc |-> "done", transaction |-> me.transaction,
                redis_client |-> me.redis_client, now |-> me.now,
                ml_risk_score |-> me.ml_risk_score, rules |-> me.rules,
                result |-> RiskAssessment(final_risk_score, confidence, all_reasons)]]
    /\ UNCHANGED <<user_profiles, blacklisted_ips, store, last, prev>>

NextConc == \E w \in Workers : Enter(w) \/ Rules(w) \/ Return(w)

SpecConc == Init /\ [][NextConc]_vars

----------------------------------------------------------------------------
(* The rule table of the specification, section 4.3 *)

Row(cond, delta, reason) == [cond |-> cond, delta |-> delta, reason |-> reason]

\* count = -1 stands for "no velocity count available"
RuleTable(t, profile, blacklist, count, hour) ==
    << Row(t.amount > 5000, 25000, "Very high transaction amount"),
       Row(t.amount > 1000 /\ ~(t.amount > 5000), 15000, "High transaction amount"),
       Row(t.ip_address \notin {None, ""} /\ t.ip_address \in blacklist, 30000,
           "Blacklisted IP address"),
       Row(profile.present /\ t.amount > 5 * profile.avg_transaction_amount, 20000,
           "Amount 5x higher than user average"),
       Row(/\ profile.present
           /\ t.amount > 3 * profile.avg_transaction_amount
           /\ ~(t.amount > 5 * profile.avg_transaction_amount), 10000,
           "Amount 3x higher than user average"),
       Row(profile.present /\ t.location \notin profile.preferred_locations, 12000,
           "Transaction from unusual location"),
       Row(profile.present /\ t.merchant_category \notin profile.preferred_merchants, 8000,
           "Unusual merchant category for user"),
       Row(count > 20, 25000, "Extremely high transaction velocity (20+ today)"),
       Row(count > 10 /\ count <= 20, 15000, "High transaction velocity (10+ today)"),
       Row(count > 5 /\ count <= 10, 8000, "Elevated transaction velocity"),
       Row(hour < 6 \/ hour > 22, 10000, "Late night transaction"),
       Row(t.payment_method = "digital_wallet", 5000,
           "Digital wallet payment (slightly higher risk)"),
       Row(t.device_fingerprint \in {None, ""}, 8000, "No device fingerprint provided") >>

Fired(row) == row.cond

RECURSIVE SumDeltas(_)
SumDeltas(rows) == IF rows = << >> THEN 0 ELSE Head(rows).delta + SumDeltas(Tail(rows))

ReasonsOf(rows) == [i \in 1..Len(rows) |-> rows[i].reason]

VelocityReasons ==
    { "Extremely high transaction velocity (20+ today)",
      "High transaction velocity (10+ today)",
      "Elevated transaction velocity" }

\* the count the store holds for the call's user, when the call can read it
CountSeen(call) ==
    IF call.redis_client = "ok" /\ store[call.transaction.user_id].kind = "digits"
    THEN store[call.transaction.user_id].n
    ELSE -1

TableRows(call, count) ==
    SelectSeq(RuleTable(call.transaction, user_profiles[call.transaction.user_id],
                        blacklisted_ips, count, call.t_rule.hour), Fired)

Levels == {"LOW", "MEDIUM", "HIGH", "CRITICAL"}
Actions == {"APPROVE", "REVIEW", "REQUEST_VERIFICATION", "DECLINE"}

Complete(call) ==
    /\ call.returned
    /\ call.result.risk_level \in Levels
    /\ call.result.recommended_action \in Actions
    /\ call.result.risk_score \in 0..10000
    /\ call.result.confidence \in 0..100

----------------------------------------------------------------------------
(* Claims about the rule engine *)

\* C8: apply_business_rules returns exactly the rule table's result: the
\* reasons of the rows whose condition holds, in table order, and the sum of
\* their deltas.
C8_RuleTableExact ==
    last # NoCall =>
        LET rows == TableRows(last, CountSeen(last))
        IN  /\ last.rule_reasons = ReasonsOf(rows)
            /\ last.rule_score = SumDeltas(rows)

\* the 42-point scenario of the specification, section 8
C8_Witness ==
    /\ last # NoCall
    /\ last.transaction = Transaction("u1", 200, "grocery", "Lagos", "digital_wallet",
                                      "fp-1", None)
    /\ last.t_rule.hour = 23
    /\ CountSeen(last) = 12
    /\ last.rule_score = 42000
    /\ last.rule_reasons = << "Transaction from unusual location",
                              "High transaction velocity (10+ today)",
                              "Late night transaction",
                              "Digital wallet payment (slightly higher risk)" >>

VelocityUnavailable(call) ==
    \/ call.redis_client \in {"absent", "raises"}
    \/ store[call.transaction.user_id].kind = "text"

\* C4: with the counter store absent or failing, the call still returns a
\* complete assessment, no velocity reason is given, and every other rule of
\* the table, before and after the velocity step, contributes as usual.
C4_VelocityFailureSwallowed ==
    (last # NoCall /\ VelocityUnavailable(last)) =>
        LET rows == TableRows(last, -1)
        IN  /\ Complete(last)
            /\ \A i \in 1..Len(last.rule_reasons) : last.rule_reasons[i] \notin VelocityReasons
            /\ last.rule_reasons = ReasonsOf(rows)
            /\ last.rule_score = SumDeltas(rows)
            /\ last.result.reasons = last.rule_reasons

\* a failing store call, with rules firing before and after the velocity step
C4_Witness ==
    /\ last # NoCall
    /\ last.redis_client = "raises"
    /\ store[last.transaction.user_id] = Digits(21)
    /\ last.returned
    /\ last.rule_reasons = << "Very high transaction amount", "Late night transaction",
                              "No device fingerprint provided" >>
    /\ last.rule_score = 43000

----------------------------------------------------------------------------
(* Claims about score fusion *)

\* C1: the returned risk_score lies in [0, 100] and the returned confidence
\* in [0, 1], whatever the transaction and the collaborators' state.
C1_ScoreAndConfidenceBounded ==
    last # NoCall =>
        /\ last.returned
        /\ 0 <= last.result.risk_score /\ last.result.risk_score <= 10000
        /\ 0 <= last.result.confidence /\ last.result.confidence <= 100

\* the cap acts: ML and rule contributions together exceed 100
C1_Witness ==
    /\ last # NoCall
    /\ last.ml_risk_score + last.rule_score > 100000
    /\ last.result.risk_score = 10000
    /\ last.result.confidence = 100

\* the threshold tables applied to the returned 2-decimal risk_score
LevelOfReturned(score) ==
    IF score < 2500 THEN "LOW"
    ELSE IF score < 5000 THEN "MEDIUM"
    ELSE IF score < 7500 THEN "HIGH"
    ELSE "CRITICAL"

ActionOfReturned(score) ==
    IF score < 3000 THEN "APPROVE"
    ELSE IF score < 5500 THEN "REVIEW"
    ELSE IF score < 8000 THEN "REQUEST_VERIFICATION"
    ELSE "DECLINE"

\* C2: risk_level and recommended_action are the threshold tables' values for
\* the returned risk_score (25.00 carries MEDIUM, 24.99 carries LOW).
C2_LevelAndActionOfReturnedScore ==
    last # NoCall =>
        /\ last.result.risk_level = LevelOfReturned(last.result.risk_score)
        /\ last.result.recommended_action = ActionOfReturned(last.result.risk_score)

ExpectedMl(call) ==
    IF call.model = NoModel \/ call.scaler = "absent" THEN 0
    ELSE IF call.scaler = "raises" \/ call.model = BrokenModel THEN 20000
    ELSE LET s == 25000 - DecisionFunction(call.model, call.features)
         IN  IF s < 0 THEN 0 ELSE IF s > 100000 THEN 100000 ELSE s

\* C5: the ML contribution is 0 with the model or the scaler absent, 20.0
\* when the scaler or the model raises, and clamp(0, 100, (0.5 - raw) * 50)
\* otherwise; in each case the rule engine runs and an assessment comes back.
C5_MlContribution ==
    last # NoCall =>
        LET rows == TableRows(last, CountSeen(last))
            fused == Min(100000, ExpectedMl(last) + SumDeltas(rows))
        IN  /\ last.ml_risk_score = ExpectedMl(last)
            /\ Complete(last)
            /\ last.rule_reasons = ReasonsOf(rows)
            /\ last.result.risk_score = Round2(fused, 10)

\* the model raises, rules fire, and the assessment carries 20.0 plus the rules
C5_Witness ==
    /\ last # NoCall
    /\ last.model = BrokenModel /\ last.scaler = "ok"
    /\ last.rule_score = 25000
    /\ last.result.risk_score = 4500
    /\ last.returned

\* C9: confidence is clamp(0, 1, finalScore/100 + 0.3 + b) to 2 decimals,
\* b = 0.2 when a rule reason fired and 0 otherwise (the ML-only reason does
\* not count); with no model and rule score 0 the assessment is 0, LOW,
\* APPROVE, 0.30.
C9_Confidence ==
    last # NoCall =>
        LET b == IF last.rule_reasons # << >> THEN 20000 ELSE 0
            c == last.final_risk_score + 30000 + b
        IN  /\ last.result.confidence = Round2(Max(0, Min(100000, c)), 1000)
            /\ (last.model = NoModel /\ last.scaler = "absent" /\ last.rule_score = 0) =>
                  /\ last.result.risk_score = 0
                  /\ last.result.risk_level = "LOW"
                  /\ last.result.recommended_action = "APPROVE"
                  /\ last.result.confidence = 30

\* an assessment whose only reason is the ML one: no corroboration bonus
C9_Witness ==
    /\ last # NoCall
    /\ last.rule_reasons = << >>
    /\ last.result.reasons = << MlReason >>
    /\ last.final_risk_score = 40004
    /\ last.result.confidence = 70

\* the scenario of section 8: no model, no rule fires
C9_ScenarioReached ==
    /\ last # NoCall
    /\ last.model = NoModel /\ last.scaler = "absent" /\ last.rule_score = 0
    /\ last.result.confidence = 30

\* C10: an assessment whose fused score is above 40 has a reason: a rule
\* fired, or none did, the fused score is the ML score and the one reason is
\* the ML reason.
C10_ElevatedScoreHasReason ==
    (last # NoCall /\ last.final_risk_score > 40000) =>
        /\ last.result.reasons # << >>
        /\ \/ last.rule_reasons # << >> /\ last.result.reasons = last.rule_reasons
           \/ /\ last.rule_reasons = << >>
              /\ last.rule_score = 0
              /\ last.final_risk_score = last.ml_risk_score
              /\ last.result.reasons = << MlReason >>
        /\ last.result.risk_level \in {"HIGH", "CRITICAL"} => last.result.reasons # << >>
        /\ last.result.recommended_action \in {"REQUEST_VERIFICATION", "DECLINE"} =>
              last.result.reasons # << >>

\* a score just above 40 that comes from the model alone
C10_Witness ==
    /\ last # NoCall
    /\ last.rule_score = 0
    /\ last.ml_risk_score = 40004
    /\ last.result.risk_level = "MEDIUM"
    /\ Len(last.result.reasons) = 1

----------------------------------------------------------------------------
(* Claims about repeated and concurrent evaluation *)

SameCollaborators(a, b) ==
    /\ a.model = b.model
    /\ a.scaler = b.scaler
    /\ a.redis_client = b.redis_client

SameClock(a, b) == a.t_feat = b.t_feat /\ a.t_rule = b.t_rule

\* two completed evaluations that differ in the amount only, the first the lower
AmountRaised(a, b) ==
    /\ a # NoCall /\ b # NoCall
    /\ [a.transaction EXCEPT !.amount = b.transaction.amount] = b.transaction
    /\ a.transaction.amount <= b.transaction.amount
    /\ SameCollaborators(a, b)
    /\ SameClock(a, b)

\* C6 as stated: raising the amount, all else fixed, never lowers risk_score.
C6_MonotoneInAmount ==
    AmountRaised(prev, last) => prev.result.risk_score <= last.result.risk_score

\* C6 amended: raising the amount never lowers risk_score when the model's
\* contribution for the higher amount is not lower than for the lower one.
C6_MonotoneGivenMl ==
    (AmountRaised(prev, last) /\ prev.ml_risk_score <= last.ml_risk_score) =>
        /\ prev.rule_score <= last.rule_score
        /\ prev.result.risk_score <= last.result.risk_score

\* a working model, the amount raised across the amount and the average tiers
C6_Witness ==
    /\ AmountRaised(prev, last)
    /\ prev.model = ConstModel(-15004)
    /\ prev.transaction.user_id = "u1"
    /\ prev.transaction.amount = 301 /\ last.transaction.amount = 6000
    /\ prev.result.risk_score < last.result.risk_score

\* the same transaction evaluated twice with the same collaborators
Repeated(a, b) ==
    /\ a # NoCall /\ b # NoCall
    /\ a.transaction = b.transaction
    /\ SameCollaborators(a, b)

RulesStep(w) == inflight[w].pc = "entered" /\ inflight'[w].pc = "ruled"

Ruled(w) == inflight[w].pc \in {"ruled", "done"}

CountOf(value) == IF value.kind = "digits" THEN value.n ELSE -1

====
